---- MODULE Spec2Model ----
(***************************************************************************)
(* A model of the AVL tree of avl.c (sredmond/c-AVL): a binary search tree *)
(* keyed on words, each node holding a multiplicity count and a cached     *)
(* height.  The tree is a value: a node is a record, a child pointer is    *)
(* either NULL or the record of the child.  No node is ever reachable by   *)
(* two child pointers in avl.c (left and right are moved, never copied),   *)
(* so the value reading of the child pointers is exact.  A word pointer is *)
(* copied by deleteAux (root->word = temp->word), so two nodes may point   *)
(* to one word buffer: a node holds the text of its buffer in `word` and   *)
(* the number that tells buffers with the same text apart in `buf`.  The   *)
(* text of a buffer is written once, by createNode.                        *)
(***************************************************************************)
EXTENDS Integers, Sequences, FiniteSets, Bags, TLC

VARIABLES tree,   \* tree->root
          pre,    \* tree->root when the last operation started
          op,     \* the last operation: kind, word, the rand() % 2 results it drew
          log,    \* what the last operation did, in order (printf, rotations, free, malloc)
          res,    \* the pointer the last search returned
          inserted \* the words inserted since createTree, as a bag, kept
                   \* while deleteFromTree has not been called (pure)

vars == <<tree, pre, op, log, res, inserted>>

(* Bounds of the model: the words, the largest count and the most nodes of *)
(* Spec, the same for SpecDeep, and the most nodes of SpecLate            *)
NumWords == 4
MaxCount == 2
MaxNodes == 5
DeepNumWords == 9
DeepCount == 1
DeepNodes == 8
LateNodes == 8
InsNumWords == 5
InsCount == 3
InsNodes == 5
MaxStream == 3
ImportCount == 2
ImportNodes == 2
TallNodes == 16

(* 'a' - 1: the words of the model are the one-letter strings "a", "b", ... *)
CharBase == 96

Word(i) == <<CharBase + i>>

Words == { Word(i) : i \in 1..NumWords }

DeepWords == { Word(i) : i \in 1..DeepNumWords }

NULL == [null |-> TRUE]

(* The byte of a C string at its head; the terminating \0 at the end *)
HeadChar(s) == IF s = <<>> THEN 0 ELSE Head(s)

(* strcmp of <string.h>: the difference of the first differing bytes *)
RECURSIVE strcmp(_, _)
strcmp(s, t) ==
  IF HeadChar(s) # HeadChar(t) THEN HeadChar(s) - HeadChar(t)
  ELSE IF s = <<>> THEN 0
  ELSE strcmp(Tail(s), Tail(t))

max(a, b) == IF a > b THEN a ELSE b

height(root) == IF root # NULL THEN root.height ELSE 0

getBalance(root) == IF root # NULL THEN height(root.left) - height(root.right) ELSE 0

RECURSIVE largestIn(_)
largestIn(root) == IF root.right # NULL THEN largestIn(root.right) ELSE root

(* smallestIn that does not descend: it returns the node it is called on *)
smallestInNoDescent(root) == root

RECURSIVE smallestIn(_)
smallestIn(root) == IF root.left # NULL THEN smallestIn(root.left) ELSE root

(* An entry of the log of an operation *)
Event(e, w, n) == [ev |-> e, word |-> w, n |-> n]

(* The entry of a call of rebalance, rotateLeft or rotateRight, with the   *)
(* node it is called on as it is at the call, and of createNode, with the  *)
(* node it returns                                                         *)
Call(e, node, n) == [ev |-> e, word |-> node.word, n |-> n, node |-> node]

(* The word buffers the nodes of a tree point to, as <<text, buf>> *)
RECURSIVE Buffers(_)
Buffers(t) ==
  IF t = NULL THEN {}
  ELSE {<<t.word, t.buf>>} \cup Buffers(t.left) \cup Buffers(t.right)

(* The word buffers of the nodes of a tree, in order (left, node, right) *)
RECURSIVE BufferSeq(_)
BufferSeq(t) ==
  IF t = NULL THEN <<>>
  ELSE BufferSeq(t.left) \o << <<t.word, t.buf>> >> \o BufferSeq(t.right)

(* The numbers of the buffers of bufs when they are numbered again: the    *)
(* buffers that hold the same text are numbered 1, 2, ... in the order in  *)
(* which bufs meets them first.  Which buffer has which number is the      *)
(* choice of malloc; the numbers only tell the buffers of one tree apart.  *)
Numbering(bufs) ==
  LET all == { bufs[i] : i \in 1..Len(bufs) }
      First(b) == CHOOSE i \in 1..Len(bufs) :
                     bufs[i] = b /\ \A j \in 1..(i - 1) : bufs[j] # b
  IN  [b \in all |->
         LET same == { c \in all : c[1] = b[1] }
         IN  IF same = {b} THEN 1
             ELSE Cardinality({ c \in same : First(c) <= First(b) })]

(* The tree with its buffers numbered by `number` *)
RECURSIVE Renumber(_, _)
Renumber(t, number) ==
  IF t = NULL THEN NULL
  ELSE [t EXCEPT !.buf = number[<<t.word, t.buf>>],
                 !.left = Renumber(t.left, number),
                 !.right = Renumber(t.right, number)]

Renumbered(t) == Renumber(t, Numbering(BufferSeq(t)))

(* malloc(len + 1) of createNode: a buffer that is none of `heap`, the     *)
(* buffers the tree points to; its number is the least one that is free    *)
(* among the buffers that hold the same text                               *)
FreshBuf(heap, word) ==
  CHOOSE n \in 1..(Cardinality(heap) + 1) :
     /\ <<word, n>> \notin heap
     /\ \A m \in 1..(n - 1) : <<word, m>> \in heap

(* createNode with count 0 in the new node *)
createNodeCountZero(word, heap) ==
  LET temp == [word |-> word, buf |-> FreshBuf(heap, word), count |-> 0,
               left |-> NULL, right |-> NULL, height |-> 1]
  IN  [node |-> temp, log |-> << Call("malloc", temp, 0) >>]

createNode(word, heap) ==
  LET temp == [word |-> word, buf |-> FreshBuf(heap, word), count |-> 1,
               left |-> NULL, right |-> NULL, height |-> 1]
  IN  [node |-> temp, log |-> << Call("malloc", temp, 0) >>]

(* rotateLeft without the update of the height of X *)
rotateLeftStaleHeight(root) ==
  LET rightChild == root.right
      temp == rightChild.left
      X == [root EXCEPT !.right = temp]
  IN  [rightChild EXCEPT !.left = X,
                         !.height = max(height(X), height(rightChild.right)) + 1]

rotateLeft(root) ==
  LET rightChild == root.right
      temp == rightChild.left
      X == [root EXCEPT !.right = temp,
                        !.height = max(height(root.left), height(temp)) + 1]
  IN  [rightChild EXCEPT !.left = X,
                         !.height = max(height(X), height(rightChild.right)) + 1]

(* rotateRight without root->left = temp *)
rotateRightNoRelink(root) ==
  LET leftChild == root.left
      Y == [root EXCEPT !.height = max(height(root.left), height(root.right)) + 1]
  IN  [leftChild EXCEPT !.right = Y,
                        !.height = max(height(leftChild.left), height(Y)) + 1]

rotateRight(root) ==
  LET leftChild == root.left
      temp == leftChild.right
      Y == [root EXCEPT !.left = temp,
                        !.height = max(height(temp), height(root.right)) + 1]
  IN  [leftChild EXCEPT !.right = Y,
                        !.height = max(height(leftChild.left), height(Y)) + 1]

(* rebalance that never rotates *)
rebalanceNoRotation(root) ==
  [node |-> root, log |-> << Call("rebalance", root, getBalance(root)) >>]

rebalance(root) ==
  LET balance == getBalance(root)
      call == << Call("rebalance", root, balance) >>
  IN  IF balance > 1 /\ getBalance(root.left) > 0
      THEN [node |-> rotateRight(root),
            log  |-> call \o << Call("rotateRight", root, 0) >>]
      ELSE IF balance < -1 /\ getBalance(root.right) < 0
      THEN [node |-> rotateLeft(root),
            log  |-> call \o << Call("rotateLeft", root, 0) >>]
      ELSE IF balance > 1 /\ getBalance(root.left) < 0
      THEN LET r == [root EXCEPT !.left = rotateLeft(root.left)]
           IN  [node |-> rotateRight(r),
                log  |-> call \o << Call("rotateLeft", root.left, 0),
                                    Call("rotateRight", r, 0) >>]
      ELSE IF balance < -1 /\ getBalance(root.right) > 0
      THEN LET r == [root EXCEPT !.right = rotateRight(root.right)]
           IN  [node |-> rotateLeft(r),
                log  |-> call \o << Call("rotateRight", root.right, 0),
                                    Call("rotateLeft", r, 0) >>]
      ELSE [node |-> root, log |-> call]

(* The tail of insertAux without the update of the height *)
UpdateAndRebalanceStaleHeight(root, sofar) ==
  [node |-> rebalance(root).node, log |-> sofar \o rebalance(root).log]

(* The tail of insertAux and deleteAux: update the height, then rebalance *)
UpdateAndRebalance(root, sofar) ==
  LET r  == [root EXCEPT !.height = max(height(root.left), height(root.right)) + 1]
      rb == rebalance(r)
  IN  [node |-> rb.node, log |-> sofar \o rb.log]

(* insertAux; heap is the word buffers allocated and pointed to by the     *)
(* tree when insert is called, which malloc will not return                *)
RECURSIVE insertAux(_, _, _)
insertAux(root, word, heap) ==
  IF root # NULL
  THEN LET cmp == strcmp(word, root.word)
       IN  IF cmp > 0
           THEN LET sub == insertAux(root.right, word, heap)
                IN  UpdateAndRebalance([root EXCEPT !.right = sub.node], sub.log)
           ELSE IF cmp < 0
           THEN LET sub == insertAux(root.left, word, heap)
                IN  UpdateAndRebalance([root EXCEPT !.left = sub.node], sub.log)
           ELSE UpdateAndRebalance([root EXCEPT !.count = root.count + 1], <<>>)
  ELSE createNode(word, heap)

insert(root, word) ==
  LET r == IF root # NULL
           THEN insertAux(root, word, Buffers(root))
           ELSE createNode(word, Buffers(root))
  IN  [node |-> Renumbered(r.node), log |-> r.log]

RECURSIVE searchAux(_, _)
searchAux(root, word) ==
  IF root # NULL
  THEN LET cmp == strcmp(word, root.word)
       IN  IF cmp > 0 THEN searchAux(root.right, word)
           ELSE IF cmp < 0 THEN searchAux(root.left, word)
           ELSE root
  ELSE NULL

search(root, word) ==
  IF root # NULL THEN searchAux(root, word) ELSE NULL

(* decrementCount that takes 2 from the count *)
decrementCountTwice(root) ==
  [node |-> [root EXCEPT !.count = root.count - 2], log |-> <<>>, rnd |-> <<>>]

(* The else branch of deleteAux at a node found with count > 1 and not      *)
(* forceful: (root->count)--; return root                                  *)
decrementCount(root) ==
  [node |-> [root EXCEPT !.count = root.count - 1], log |-> <<>>, rnd |-> <<>>]

(* What rand() % 2 may give *)
RandMod2 == {0, 1}

(* deleteAux: the set of its possible outcomes, one for each sequence of    *)
(* results of rand() % 2 it may draw. An outcome is the node returned, the *)
(* log of the call, and rnd, the results drawn, in order.                  *)
RECURSIVE deleteAux(_, _, _)
deleteAux(root, word, forceful) ==
  IF root # NULL
  THEN LET cmp == strcmp(word, root.word)
           \* the tail of the function: update the height, rebalance, return
           Finish(r, sub, drawn) ==
             LET u == UpdateAndRebalance(r, sub.log)
             IN  [node |-> u.node, log |-> u.log, rnd |-> drawn \o sub.rnd]
       IN  IF cmp > 0
           THEN { Finish([root EXCEPT !.right = sub.node], sub, <<>>) :
                    sub \in deleteAux(root.right, word, forceful) }
           ELSE IF cmp < 0
           THEN { Finish([root EXCEPT !.left = sub.node], sub, <<>>) :
                    sub \in deleteAux(root.left, word, forceful) }
           ELSE IF root.count = 1 \/ forceful # 0
           THEN IF root.left # NULL
                THEN IF root.right # NULL
                     THEN UNION { 
                            IF path # 0
                            THEN LET temp == smallestIn(root.right)
                                 IN  { Finish([root EXCEPT !.word = temp.word,
                                                           !.buf = temp.buf,
                                                           !.count = temp.count,
                                                           !.right = sub.node],
                                              sub, <<path>>) :
                                         sub \in deleteAux(root.right, temp.word, 1) }
                            ELSE LET temp == largestIn(root.right)
                                 IN  { Finish([root EXCEPT !.word = temp.word,
                                                           !.buf = temp.buf,
                                                           !.count = temp.count,
                                                           !.left = sub.node],
                                              sub, <<path>>) :
                                         sub \in deleteAux(root.left, temp.word, 1) }
                            : path \in RandMod2 }
                     ELSE { [node |-> root.left,
                             log  |-> << Event("free", root.word, 0) >>, rnd |-> <<>>] }
                ELSE IF root.right # NULL
                     THEN { [node |-> root.right,
                             log  |-> << Event("free", root.word, 0) >>, rnd |-> <<>>] }
                     ELSE { [node |-> NULL, log |-> <<>>, rnd |-> <<>>] }
           ELSE { decrementCount(root) }
  ELSE { [node |-> root, log |-> << Event("notfound", word, 0) >>, rnd |-> <<>>] }

deleteFromTree(root, word) ==
  IF root # NULL
  THEN { [r EXCEPT !.node = Renumbered(r.node)] : r \in deleteAux(root, word, 0) }
  ELSE { [node |-> root, log |-> << Event("empty", word, 0) >>, rnd |-> <<>>] }

(* destroyAux: what it frees, in order: for each node, after its subtrees, *)
(* the word buffer the node points to and then the node                    *)
RECURSIVE destroyAux(_)
destroyAux(root) ==
  IF root # NULL
  THEN destroyAux(root.left) \o destroyAux(root.right)
       \o << Event("freeword", root.word, root.buf), Event("free", root.word, 0) >>
  ELSE <<>>

(* destroy: destroyAux(tree->root), then free(tree) *)
destroy(root) == destroyAux(root) \o << Event("freetree", <<>>, 0) >>

(* EOF of <stdio.h> *)
EOF == -1

(* isalpha that is true of the lower-case letters only *)
isalphaLowerCase(c) == c \in 97..122

(* isalpha of <ctype.h> in the C locale *)
isalpha(c) == c \in 65..90 \/ c \in 97..122

(* fgetc on a file whose unread characters are fptr *)
fgetc(fptr) == IF fptr = <<>> THEN EOF ELSE Head(fptr)

(* The while loop of importFile: the characters read into word up to the   *)
(* first one that is not alphabetic, that character c, and the file after  *)
RECURSIVE ReadWord(_, _)
ReadWord(fptr, word) ==
  LET c == fgetc(fptr)
  IN  IF isalpha(c)
      THEN ReadWord(Tail(fptr), Append(word, c))
      ELSE [word |-> word, c |-> c, fptr |-> IF fptr = <<>> THEN fptr ELSE Tail(fptr)]

(* The outcome r of a call, with the entries `before` ahead of its log *)
After(before, r) == [node |-> r.node, log |-> before \o r.log]

(* importFile: the do-while loop, one word for each turn, inserted when it *)
(* is not empty; the log has an entry for each call of insert              *)
RECURSIVE importFile(_, _)
importFile(fptr, root) ==
  LET Inserted(word) ==
         IF word # <<>>
         THEN After(<< Event("insert", word, 0) >>, insert(root, word))
         ELSE [node |-> root, log |-> <<>>]
      While(rd, ins) ==
         IF rd.c # EOF
         THEN After(ins.log, importFile(rd.fptr, ins.node))
         ELSE ins
      Do(rd) == While(rd, Inserted(rd.word))
  IN  Do(ReadWord(fptr, <<>>))

(* The words of the calls of insert in a log, in order *)
InsertCalls(l) ==
  LET calls == SelectSeq(l, LAMBDA e : e.ev = "insert")
  IN  [i \in 1..Len(calls) |-> calls[i].word]

(* ---- measures of a tree, used to state the properties and the bounds ---- *)

RECURSIVE Size(_)
Size(t) == IF t = NULL THEN 0 ELSE 1 + Size(t.left) + Size(t.right)

(* The true height of a subtree: 0 for NULL, 1 for a leaf *)
RECURSIVE TrueHeight(_)
TrueHeight(t) ==
  IF t = NULL THEN 0
  ELSE 1 + (LET l == TrueHeight(t.left) r == TrueHeight(t.right)
            IN  IF l > r THEN l ELSE r)

(* The in-order sequence of the nodes of a tree, as <<word, count>> pairs *)
RECURSIVE InOrder(_)
InOrder(t) ==
  IF t = NULL THEN <<>>
  ELSE InOrder(t.left) \o << <<t.word, t.count>> >> \o InOrder(t.right)

(* The largest count of a node of the tree *)
RECURSIVE LargestCount(_)
LargestCount(t) ==
  IF t = NULL THEN 0
  ELSE LET l == LargestCount(t.left) r == LargestCount(t.right)
           m == IF l > r THEN l ELSE r
       IN  IF t.count > m THEN t.count ELSE m

(* ------------------------------ the program ----------------------------- *)

(* The value of `inserted` once deleteFromTree has been called *)
NoInserted == [pure |-> FALSE, words |-> EmptyBag]

(* An operation of main's loop: its kind, its word, the results of rand() % 2 *)
(* it drew, and whether the operation before it was an insert of that word  *)
Op(kind, w, rnd) ==
  [kind |-> kind, word |-> w, rnd |-> rnd,
   justInserted |-> op.kind = "insert" /\ op.word = w]

NoOp == [kind |-> "createTree", word |-> <<>>, rnd |-> <<>>, justInserted |-> FALSE]

(* main, after createTree() *)
Init ==
  /\ tree = NULL
  /\ pre = NULL
  /\ op = NoOp
  /\ log = <<>>
  /\ res = NULL
  /\ inserted = [pure |-> TRUE, words |-> EmptyBag]

(* The bag `inserted` after the calls insert(tree, w) for the w of ws, in order *)
RECURSIVE Record(_, _)
Record(ins, ws) ==
  IF ws = <<>> \/ ~ins.pure THEN ins
  ELSE Record([ins EXCEPT !.words = @ (+) SetToBag({Head(ws)})], Tail(ws))

(* case 1 of main: insert(tree, word) *)
Insert(w) ==
  LET r == insert(tree, w)
  IN  /\ tree' = r.node
      /\ pre' = tree
      /\ op' = Op("insert", w, <<>>)
      /\ log' = r.log
      /\ res' = NULL
      /\ inserted' = Record(inserted, <<w>>)

(* case 2 of main: res = search(tree, word); res is read only here *)
Search(w) ==
  /\ res' = search(tree, w)
  /\ pre' = tree
  /\ op' = Op("search", w, <<>>)
  /\ log' = <<>>
  /\ UNCHANGED <<tree, inserted>>

(* case 3 of main: deleteFromTree(tree, word) *)
Delete(w) ==
  \E r \in deleteFromTree(tree, w) :
      /\ tree' = r.node
      /\ pre' = tree
      /\ op' = Op("delete", w, r.rnd)
      /\ log' = r.log
      /\ res' = NULL
      /\ inserted' = NoInserted

(* case 6 of main: importFile(fptr, tree) on a file that holds stream *)
Import(stream) ==
  LET r == importFile(stream, tree)
  IN  /\ tree' = r.node
      /\ pre' = tree
      /\ op' = Op("import", stream, <<>>)
      /\ log' = r.log
      /\ res' = NULL
      /\ inserted' = Record(inserted, InsertCalls(log'))

(* case 7 of main: the loop ends, destroy(tree), and the process returns *)
Exit ==
  /\ tree' = NULL
  /\ pre' = tree
  /\ op' = Op("exit", <<>>, <<>>)
  /\ log' = destroy(tree)
  /\ res' = NULL
  /\ UNCHANGED inserted

(* The loop of main goes on until command 7 *)
Running == op.kind # "exit"

(* The trees the model explores: at most `nodes` nodes, counts up to `counts` *)
WithinBounds(t, nodes, counts) == Size(t) <= nodes /\ LargestCount(t) <= counts

Next ==
  \/ \E w \in Words :
        Running /\ WithinBounds(insert(tree, w).node, MaxNodes, MaxCount) /\ Insert(w)
  \/ \E w \in Words : Running /\ Search(w)
  \/ \E w \in Words : Running /\ Delete(w)
  \/ Running /\ Exit

Spec == Init /\ [][Next]_vars

(* The behaviours over more words and larger trees in which every rand() % 2 *)
(* gives 1 (the successor is promoted)                                      *)
NextDeep ==
  \/ \E w \in DeepWords :
        WithinBounds(insert(tree, w).node, DeepNodes, DeepCount) /\ Insert(w)
  \/ \E w \in DeepWords : Delete(w) /\ \A i \in DOMAIN op'.rnd : op'.rnd[i] = 1

SpecDeep == Init /\ [][NextDeep]_vars

(* A run of main that leaves a tree with a word in two nodes and a node of *)
(* balance factor 3: the commands, in order, with what rand() % 2 gave     *)
Step(kind, i, rnd) == [kind |-> kind, word |-> Word(i), rnd |-> rnd]

Script ==
  << Step("insert", 5, <<>>), Step("insert", 8, <<>>), Step("insert", 7, <<>>),
     Step("insert", 3, <<>>), Step("insert", 8, <<>>), Step("delete", 8, <<>>),
     Step("insert", 1, <<>>), Step("insert", 4, <<>>), Step("delete", 5, <<0>>),
     Step("insert", 7, <<>>), Step("insert", 6, <<>>), Step("insert", 5, <<>>),
     Step("delete", 8, <<1>>), Step("delete", 4, <<1>>), Step("insert", 4, <<>>),
     Step("delete", 8, <<>>) >>

(* What the n-th command of Script returns, run on the tree the commands   *)
(* before it leave                                                         *)
RECURSIVE Replay(_)
Replay(n) ==
  LET t == IF n = 1 THEN NULL ELSE Replay(n - 1).node
      s == Script[n]
  IN  IF s.kind = "insert"
      THEN insert(t, s.word)
      ELSE LET r == CHOOSE r \in deleteFromTree(t, s.word) : r.rnd = s.rnd
           IN  [node |-> r.node, log |-> r.log]

(* main after the commands of Script *)
InitLate ==
  LET n == Len(Script)
  IN  /\ tree = Replay(n).node
      /\ pre = Replay(n - 1).node
      /\ op = [kind |-> Script[n].kind, word |-> Script[n].word, rnd |-> Script[n].rnd,
               justInserted |-> FALSE]
      /\ log = Replay(n).log
      /\ res = NULL
      /\ inserted = NoInserted

LateWords == { Word(2), Word(7), Word(8) }

NextLate ==
  \/ \E w \in LateWords :
        WithinBounds(insert(tree, w).node, LateNodes, MaxCount) /\ Insert(w)
  \/ \E w \in LateWords : Search(w)
  \/ \E w \in LateWords : Delete(w)

SpecLate == InitLate /\ [][NextLate]_vars

(* A run of main that leaves a tree of 16 nodes and height 6, from which   *)
(* deleteFromTree of "e" leaves 15 nodes and height 6: 25 inserts, then 9  *)
(* deletes that take nodes from the light side of nodes whose heavy child  *)
(* has balance factor 0                                                    *)
TallScript ==
  << Step("insert", 8, <<>>), Step("insert", 13, <<>>), Step("insert", 6, <<>>),
     Step("insert", 17, <<>>), Step("insert", 20, <<>>), Step("insert", 4, <<>>),
     Step("insert", 19, <<>>), Step("insert", 25, <<>>), Step("insert", 21, <<>>),
     Step("insert", 5, <<>>), Step("insert", 3, <<>>), Step("insert", 10, <<>>),
     Step("insert", 7, <<>>), Step("insert", 2, <<>>), Step("insert", 14, <<>>),
     Step("insert", 1, <<>>), Step("insert", 12, <<>>), Step("insert", 23, <<>>),
     Step("insert", 15, <<>>), Step("insert", 24, <<>>), Step("insert", 9, <<>>),
     Step("insert", 22, <<>>), Step("insert", 18, <<>>), Step("insert", 11, <<>>),
     Step("insert", 16, <<>>), Step("delete", 13, <<1>>), Step("delete", 23, <<1>>),
     Step("delete", 7, <<>>), Step("delete", 2, <<>>), Step("delete", 24, <<1>>),
     Step("delete", 1, <<>>), Step("delete", 6, <<>>), Step("delete", 3, <<>>),
     Step("delete", 4, <<>>) >>

(* main after the commands i, i + 1, ... of a script, run from st: the     *)
(* tree, the log of the last command and the tree before it                *)
RECURSIVE RunScript(_, _, _)
RunScript(script, i, st) ==
  IF i > Len(script) THEN st
  ELSE LET s == script[i]
           outcomes == IF s.kind = "insert"
                       THEN { insert(st.node, s.word) }
                       ELSE { r \in deleteFromTree(st.node, s.word) : r.rnd = s.rnd }
       IN  CHOOSE end \in { RunScript(script, i + 1,
                                      [node |-> r.node, log |-> r.log, pre |-> st.node]) :
                               r \in outcomes } : TRUE

(* main after the commands of TallScript *)
InitTall ==
  LET n == Len(TallScript)
      last == RunScript(TallScript, 1, [node |-> NULL, log |-> <<>>, pre |-> NULL])
  IN  /\ tree = last.node
      /\ pre = last.pre
      /\ op = [kind |-> TallScript[n].kind, word |-> TallScript[n].word,
               rnd |-> TallScript[n].rnd, justInserted |-> FALSE]
      /\ log = last.log
      /\ res = NULL
      /\ inserted = NoInserted

TallWords == { Word(5), Word(18), Word(25) }

NextTall ==
  \/ \E w \in TallWords :
        WithinBounds(insert(tree, w).node, TallNodes, MaxCount) /\ Insert(w)
  \/ \E w \in TallWords : Search(w)
  \/ \E w \in TallWords : Delete(w)

SpecTall == InitTall /\ [][NextTall]_vars

(* The behaviours that only insert, over more words and larger counts *)
InsWords == { Word(i) : i \in 1..InsNumWords }

NextInsert ==
  \E w \in InsWords : WithinBounds(insert(tree, w).node, InsNodes, InsCount) /\ Insert(w)

SpecInsert == Init /\ [][NextInsert]_vars

(* The behaviours that only import files: letters of both cases, a blank   *)
(* and a digit, in files of up to MaxStream characters                     *)
Chars == {65, 97, 32, 49}

Streams == UNION { [1..n -> Chars] : n \in 0..MaxStream }

NextImport ==
  \E stream \in Streams :
     WithinBounds(importFile(stream, tree).node, ImportNodes, ImportCount) /\ Import(stream)

SpecImport == Init /\ [][NextImport]_vars

(* ------------------------------ properties ------------------------------ *)

Abs(n) == IF n < 0 THEN 0 - n ELSE n

(* Every node's subtrees differ in true height by at most 1 *)
RECURSIVE Balanced(_)
Balanced(t) ==
  t = NULL \/ /\ Abs(TrueHeight(t.left) - TrueHeight(t.right)) <= 1
              /\ Balanced(t.left)
              /\ Balanced(t.right)

(* Every node's height field is its true height *)
RECURSIVE HeightsCorrect(_)
HeightsCorrect(t) ==
  t = NULL \/ /\ t.height = 1 + max(TrueHeight(t.left), TrueHeight(t.right))
              /\ HeightsCorrect(t.left)
              /\ HeightsCorrect(t.right)

(* The in-order sequence of words is strictly ascending under strcmp *)
Ascending(t) ==
  LET io == InOrder(t)
  IN  \A i \in 1..(Len(io) - 1) : strcmp(io[i][1], io[i + 1][1]) < 0

(* Some node of t holds word k *)
Holds(t, k) == \E i \in 1..Len(InOrder(t)) : InOrder(t)[i][1] = k

(* The counts of the nodes of t that hold word k *)
CountsOf(t, k) ==
  LET io == InOrder(t) IN { io[i][2] : i \in { j \in 1..Len(io) : io[j][1] = k } }

(* How many nodes of t hold the pair <<word, count>> p *)
Copies(t, p) ==
  LET io == InOrder(t) IN Cardinality({ i \in 1..Len(io) : io[i] = p })

AllPairs(t1, t2) ==
  LET a == InOrder(t1) b == InOrder(t2)
  IN  { a[i] : i \in 1..Len(a) } \cup { b[i] : i \in 1..Len(b) }

(* The nodes of t2 are those of t1 with one node `gone` removed and one    *)
(* node `new` added (gone or new may be <<>>: nothing removed or added)    *)
Replaced(t1, t2, gone, new) ==
  \A p \in (AllPairs(t1, t2) \cup {gone, new}) \ {<<>>} :
     Copies(t2, p) = Copies(t1, p) - (IF p = gone THEN 1 ELSE 0)
                                   + (IF p = new THEN 1 ELSE 0)

(* The messages of an operation that report that the word was not found *)
NotFoundReports ==
  { i \in 1..Len(log) : log[i].ev \in {"notfound", "empty"} }

(* The rotations an operation made *)
Rotations ==
  { i \in 1..Len(log) : log[i].ev \in {"rotateLeft", "rotateRight"} }

(* The trees that are t with the count of one node holding k, more than 1, *)
(* decreased by 1, and nothing else changed                                *)
RECURSIVE Decremented(_, _)
Decremented(t, k) ==
  IF t = NULL THEN {}
  ELSE (IF t.word = k /\ t.count > 1 THEN { [t EXCEPT !.count = t.count - 1] } ELSE {})
       \cup { [t EXCEPT !.left = l] : l \in Decremented(t.left, k) }
       \cup { [t EXCEPT !.right = r] : r \in Decremented(t.right, k) }

(* C1: after every insert or deleteFromTree, every node's subtrees differ  *)
(* in true height by at most 1                                            *)
C1_Balance == Balanced(tree)

(* C2: after every insert or deleteFromTree the in-order sequence of words *)
(* is strictly ascending under strcmp (BST order, no word twice)          *)
C2_Order == Ascending(tree)

(* C3: after every insert or deleteFromTree each node's height field is   *)
(* 1 + the larger of the true heights of its subtrees (0 for no child)    *)
C3_Heights == HeightsCorrect(tree)

(* A delete that removed a node with two children and rotated on the way   *)
(* back, so that heights were recomputed by the rotation and by deleteAux  *)
C3_Witness ==
  /\ op.kind = "delete"
  /\ op.rnd # <<>>
  /\ Rotations # {}
  /\ TrueHeight(tree) >= 2

(* C4: insert(tree, k) adds 1 to the count of the node that holds k and    *)
(* creates no node, or, when no node holds k, adds one node <<k, 1>>; the  *)
(* words and counts of all other nodes are unchanged                      *)
C4_InsertContract ==
  op.kind = "insert" =>
     IF Holds(pre, op.word)
     THEN /\ Size(tree) = Size(pre)
          /\ \E c \in CountsOf(pre, op.word) :
                Replaced(pre, tree, <<op.word, c>>, <<op.word, c + 1>>)
     ELSE Replaced(pre, tree, <<>>, <<op.word, 1>>)

(* C5: search(tree, k) returns a node whose word is k when some node holds *)
(* k, NULL when none does, and leaves the tree as it was                  *)
C5_SearchContract ==
  op.kind = "search" =>
     /\ Holds(pre, op.word) => res # NULL /\ res.word = op.word
     /\ ~Holds(pre, op.word) => res = NULL
     /\ tree = pre

(* C6: deleteFromTree(tree, k), when a node holds k with count 1, leaves   *)
(* the nodes of the tree minus <<k, 1>>: k is gone, every other word is    *)
(* there once with the count it had                                       *)
C6_DeleteSingle ==
  (op.kind = "delete" /\ 1 \in CountsOf(pre, op.word)) =>
     /\ Replaced(pre, tree, <<op.word, 1>>, <<>>)
     /\ ~Holds(tree, op.word)

(* C7: deleteFromTree(tree, k), when a node holds k with count c > 1, sets *)
(* that count to c - 1 and changes nothing else: shape, heights, root and  *)
(* the other words and counts stay                                        *)
C7_DeleteMulti ==
  (op.kind = "delete" /\ \E c \in CountsOf(pre, op.word) : c > 1) =>
     tree \in Decremented(pre, op.word)

(* C8: deleteFromTree(tree, k), when no node holds k, reports not-found    *)
(* and leaves the tree exactly as it was                                  *)
C8_DeleteAbsent ==
  (op.kind = "delete" /\ ~Holds(pre, op.word)) =>
     /\ NotFoundReports # {}
     /\ tree = pre

(* C9: deleteFromTree(tree, k) reports not-found only if no node held k    *)
(* when the call started                                                  *)
C9_NotFoundOnlyIfAbsent ==
  (op.kind = "delete" /\ Holds(pre, op.word)) => NotFoundReports = {}

(* C10: after insert(tree, k) and then at once deleteFromTree(tree, k):    *)
(* if the count of k was 1 before the delete, search(tree, k) is NULL;    *)
(* if it was c > 1, search(tree, k) is a node with count c - 1            *)
C10_InsertDeleteInverse ==
  (op.kind = "delete" /\ op.justInserted) =>
     LET before == search(pre, op.word)
         after  == search(tree, op.word)
     IN  /\ before # NULL
         /\ IF before.count = 1
            THEN after = NULL
            ELSE after # NULL /\ after.count = before.count - 1

(* The calls of rebalance an operation made *)
RebalanceCalls == { i \in 1..Len(log) : log[i].ev = "rebalance" }

(* How many entries of the log of an operation are of kind e *)
Entries(e) == Cardinality({ i \in 1..Len(log) : log[i].ev = e })

(* The letters of the alphabet, as bytes *)
Letters == (65..90) \cup (97..122)

(* The maximal runs of letters of a stream, in the order of the stream *)
MaximalRuns(s) ==
  LET starts == { i \in 1..Len(s) : s[i] \in Letters /\ (i = 1 \/ s[i - 1] \notin Letters) }
      EndOf(i) == CHOOSE j \in i..Len(s) :
                     /\ \A k \in i..j : s[k] \in Letters
                     /\ j = Len(s) \/ s[j + 1] \notin Letters
      Nth(k) == CHOOSE i \in starts : Cardinality({ j \in starts : j < i }) = k - 1
  IN  [k \in 1..Cardinality(starts) |-> SubSeq(s, Nth(k), EndOf(Nth(k)))]

(* The tree after insert(tree, w) for each w of ws, in order *)
RECURSIVE InsertAll(_, _)
InsertAll(t, ws) ==
  IF ws = <<>> THEN t ELSE InsertAll(insert(t, Head(ws)).node, Tail(ws))

(* C11: while only inserts have been made on the tree since createTree,    *)
(* for each word inserted n >= 1 times exactly one node holds the word,    *)
(* its count is n, and search returns that node                           *)
C11_InsertCounts ==
  inserted.pure =>
     \A w \in BagToSet(inserted.words) :
        LET n == CopiesIn(w, inserted.words)
            found == search(tree, w)
        IN  /\ CountsOf(tree, w) = {n}
            /\ Copies(tree, <<w, n>>) = 1
            /\ found # NULL
            /\ found.word = w
            /\ found.count = n

(* Three inserts of one word among inserts of other words, with a rotation *)
C11_Witness ==
  /\ inserted.pure
  /\ op.kind = "insert"
  /\ CopiesIn(op.word, inserted.words) = 3
  /\ Size(tree) >= 3
  /\ TrueHeight(tree) >= 3

(* C12: importFile calls insert once for each maximal run of letters of    *)
(* the stream, in the order of the stream, and for nothing else; on an     *)
(* empty tree this leaves, for each distinct run, one node whose count is  *)
(* the number of times the run occurs, and no node for the empty string    *)
C12_ImportRuns ==
  op.kind = "import" =>
     LET runs == MaximalRuns(op.word)
     IN  /\ InsertCalls(log) = runs
         /\ tree = InsertAll(pre, runs)
         /\ pre = NULL =>
               /\ \A i \in 1..Len(runs) :
                     LET n == Cardinality({ j \in 1..Len(runs) : runs[j] = runs[i] })
                     IN  /\ CountsOf(tree, runs[i]) = {n}
                         /\ Copies(tree, <<runs[i], n>>) = 1
               /\ ~Holds(tree, <<>>)
               /\ Size(tree) = Cardinality({ runs[i] : i \in 1..Len(runs) })

(* An import into the empty tree of a stream that holds one word twice *)
C12_Witness ==
  /\ op.kind = "import"
  /\ pre = NULL
  /\ Len(MaximalRuns(op.word)) = 2
  /\ Size(tree) = 1
  /\ LargestCount(tree) = 2

(* C13: destroy(tree) frees no word buffer twice: no two entries of its    *)
(* log free the same buffer                                                *)
C13_NoDoubleFree ==
  op.kind = "exit" =>
     \A i, j \in 1..Len(log) :
        (i < j /\ log[i].ev = "freeword") => log[j] # log[i]

(* C14: deleteFromTree frees every node it takes out of the tree and every *)
(* word buffer the tree no longer points to, and destroy frees every node  *)
(* and every word buffer of the tree, so that nothing createNode allocated *)
(* is left when main returns                                               *)
C14_NoLeak ==
  /\ op.kind = "delete" =>
        /\ Entries("free") = Size(pre) - Size(tree)
        /\ Entries("freeword") = Cardinality(Buffers(pre)) - Cardinality(Buffers(tree))
  /\ op.kind = "exit" =>
        /\ Entries("free") = Size(pre)
        /\ \A b \in Buffers(pre) :
              \E i \in 1..Len(log) : log[i] = Event("freeword", b[1], b[2])

(* The largest height of a tree of n nodes that 1.4405 * log2(n + 2)       *)
(* allows, for n up to 27: the floor of the bound                          *)
HeightBound(n) ==
  IF n = 0 THEN 1
  ELSE IF n <= 2 THEN 2
  ELSE IF n <= 4 THEN 3
  ELSE IF n <= 9 THEN 4
  ELSE IF n <= 15 THEN 5
  ELSE 6

(* C15: the true height of the tree is at most 1.4405 * log2(n + 2), n the *)
(* number of its nodes                                                     *)
C15_HeightBound == TrueHeight(tree) <= HeightBound(Size(tree))

(* C16: every node of the tree has count >= 1, and a node that createNode  *)
(* returns has count 1, height 1 and no children                           *)
C16_PositiveCounts ==
  /\ \A i \in 1..Len(InOrder(tree)) : InOrder(tree)[i][2] >= 1
  /\ \A i \in 1..Len(log) :
        log[i].ev = "malloc" =>
           /\ log[i].node.count = 1
           /\ log[i].node.height = 1
           /\ log[i].node.left = NULL
           /\ log[i].node.right = NULL

(* A delete that took one from a count of 2 *)
C16_Witness ==
  /\ op.kind = "delete"
  /\ 2 \in CountsOf(pre, op.word)
  /\ tree \in Decremented(pre, op.word)

(* C17: a call of rebalance on a node of balance factor > 1 whose left     *)
(* child has balance factor >= 0 returns rotateRight of the node, one on a *)
(* node of balance factor < -1 whose right child has balance factor <= 0   *)
(* returns rotateLeft of the node, and the node returned then has balance  *)
(* factor -1, 0 or 1                                                       *)
C17_CaseSelection ==
  \A i \in RebalanceCalls :
     LET node == log[i].node
         r == rebalance(node).node
     IN  /\ (getBalance(node) > 1 /\ getBalance(node.left) >= 0) =>
               r = rotateRight(node) /\ Abs(getBalance(r)) <= 1
         /\ (getBalance(node) < -1 /\ getBalance(node.right) <= 0) =>
               r = rotateLeft(node) /\ Abs(getBalance(r)) <= 1

(* C18: at every call of rebalance the balance factor of the node, from    *)
(* the height fields of its children, is in -2..2                          *)
C18_BalanceInRange ==
  \A i \in RebalanceCalls : log[i].n \in -2..2

(* C19: rotateLeft(node) returns the right child of node with node as its  *)
(* left child; the left subtree of node and the right subtree of the right *)
(* child stay where they are, the left subtree of the right child becomes  *)
(* the right subtree of node, and the in-order sequence of <<word, count>> *)
(* is the same; rotateRight likewise, mirrored                             *)
C19_RotationsPreserve ==
  \A i \in Rotations :
     LET node == log[i].node
     IN  IF log[i].ev = "rotateLeft"
         THEN LET r == rotateLeft(node)
              IN  /\ <<r.word, r.buf, r.count>>
                       = <<node.right.word, node.right.buf, node.right.count>>
                  /\ <<r.left.word, r.left.buf, r.left.count>>
                       = <<node.word, node.buf, node.count>>
                  /\ r.right = node.right.right
                  /\ r.left.left = node.left
                  /\ r.left.right = node.right.left
                  /\ InOrder(r) = InOrder(node)
         ELSE LET r == rotateRight(node)
              IN  /\ <<r.word, r.buf, r.count>>
                       = <<node.left.word, node.left.buf, node.left.count>>
                  /\ <<r.right.word, r.right.buf, r.right.count>>
                       = <<node.word, node.buf, node.count>>
                  /\ r.left = node.left.left
                  /\ r.right.right = node.right
                  /\ r.right.left = node.left.right
                  /\ InOrder(r) = InOrder(node)

(* An operation that rotated left and right, one of the rotations moving a *)
(* subtree that is not empty                                               *)
C19_Witness ==
  /\ \E i \in Rotations : log[i].ev = "rotateLeft"
  /\ \E i \in Rotations : log[i].ev = "rotateRight"
  /\ \E i \in Rotations :
        IF log[i].ev = "rotateLeft"
        THEN log[i].node.right.left # NULL
        ELSE log[i].node.left.right # NULL

(* C20: three inserts of distinct words x > y > z, in this order, into the *)
(* empty tree rotate once in all: rotateRight on the node of x, in the     *)
(* third insert; the tree is then y with the leaves z on the left and x on *)
(* the right                                                               *)
C20_DescendingTriple ==
  \A x, y, z \in InsWords :
     LET i1 == insert(NULL, x)
         i2 == insert(i1.node, y)
         RotationsIn(l) == { i \in 1..Len(l) : l[i].ev \in {"rotateLeft", "rotateRight"} }
     IN  ( /\ strcmp(x, y) > 0 /\ strcmp(y, z) > 0
           /\ inserted = [pure |-> TRUE, words |-> SetToBag({x, y, z})]
           /\ pre = i2.node
           /\ op.kind = "insert" /\ op.word = z )
         => /\ RotationsIn(i1.log) = {} /\ RotationsIn(i2.log) = {}
            /\ Cardinality(Rotations) = 1
            /\ \A i \in Rotations : log[i].ev = "rotateRight" /\ log[i].word = x
            /\ tree.word = y
            /\ tree.left # NULL /\ tree.left.word = z
            /\ tree.left.left = NULL /\ tree.left.right = NULL
            /\ tree.right # NULL /\ tree.right.word = x
            /\ tree.right.left = NULL /\ tree.right.right = NULL
            /\ InOrder(tree) = << <<z, 1>>, <<y, 1>>, <<x, 1>> >>

(* The third of the inserts of "c", "b", "a" into the empty tree *)
C20_Witness ==
  /\ inserted = [pure |-> TRUE, words |-> SetToBag({Word(3), Word(2), Word(1)})]
  /\ pre = insert(insert(NULL, Word(3)).node, Word(2)).node
  /\ op.kind = "insert" /\ op.word = Word(1)

(* The sequence s without its entries for word k *)
WithoutWord(s, k) == SelectSeq(s, LAMBDA p : p[1] # k)

(* C21: deleteFromTree on a tree in BST order that removes a node with two *)
(* children and draws path = 1 draws nothing more; the node found takes    *)
(* the word and count of the smallest node of its right subtree, which is  *)
(* removed whatever its count: the in-order sequence is that of before     *)
(* without the deleted word, so the promoted word is in one node, with the *)
(* count it had, and the BST order holds                                   *)
C21_SuccessorPromotion ==
  (op.kind = "delete" /\ Ascending(pre) /\ op.rnd # <<>> /\ Head(op.rnd) = 1) =>
     LET matched == searchAux(pre, op.word)
         temp == smallestIn(matched.right)
     IN  /\ op.rnd = <<1>>
         /\ Copies(tree, <<temp.word, temp.count>>) = 1
         /\ CountsOf(tree, temp.word) = {temp.count}
         /\ ~Holds(tree, op.word)
         /\ InOrder(tree) = WithoutWord(InOrder(pre), op.word)
         /\ Ascending(tree)

(* A delete with path = 1 of a node whose successor has count 2 and is not *)
(* its right child                                                         *)
C21_Witness ==
  /\ op.kind = "delete" /\ Ascending(pre) /\ op.rnd = <<1>>
  /\ LET matched == searchAux(pre, op.word)
     IN  /\ matched.right.left # NULL
         /\ smallestIn(matched.right).count = 2
         /\ CountsOf(tree, smallestIn(matched.right).word) = {2}

(* The calls of rebalance of an operation that rotated: the entry of a     *)
(* rotation follows the entry of the call                                  *)
RotatingCalls ==
  { i \in RebalanceCalls : i < Len(log) /\ (i + 1) \in Rotations }

(* C22: after each insert of a run of inserts from the empty tree, every   *)
(* node's subtrees differ in true height by at most 1, and at most one of  *)
(* the calls of rebalance the insert made rotated (once or twice)          *)
C22_InsertsBalanced ==
  (op.kind = "insert" /\ inserted.pure) =>
     /\ Balanced(tree)
     /\ Cardinality(RotatingCalls) <= 1

(* An insert whose double rotation is made below the root: the call of     *)
(* rebalance that rotates is followed by a call that does not              *)
C22_Witness ==
  /\ op.kind = "insert" /\ inserted.pure
  /\ Cardinality(Rotations) = 2
  /\ \E i \in RotatingCalls : \E j \in RebalanceCalls : j > i

====
